---- MODULE Spec2Model ----
(***************************************************************************)
(* Verification model of the Smart Voting System core:                     *)
(*   - src/src/lib/crypto.ts     GF(256) tables, Shamir secret sharing,    *)
(*                               share texts, proof-of-work mining and     *)
(*                               verification                              *)
(*   - src/src/lib/blockchain.ts the append-only ledger and its validation *)
(*   - src/unnamed/part_002      the voter database and authenticateVoter  *)
(*   - src/README.md             the Index component of the application    *)
(*   - src/unnamed/part_000/001  the screens that call its handlers        *)
(*                                                                         *)
(* The specifications below share one list of variables:                   *)
(*   Spec        the ledger driven by serialized addVote calls             *)
(*   SpecShamir  shamirSplit followed by shamirCombine or by encodeShare   *)
(*               and decodeShare, and shamirCombine on drawn share lists   *)
(*   SpecTamper  validateChain applied to accepted chains, to copies of    *)
(*               them in which one field of one block was changed, and to  *)
(*               what is left of them without their first blocks           *)
(*   SpecCalls   one call of gfMul, gfDiv or verifyProofOfWork             *)
(*   SpecAuth    authenticateVoter calls on the voter database             *)
(*   SpecMine    one mineBlock call, one turn of its loop at a time        *)
(*   SpecFork    two addVote calls started on the same state               *)
(*   SpecApp     the screens and handlers of the Index component           *)
(***************************************************************************)
EXTENDS Integers, Sequences, FiniteSets, TLC

VARIABLES
    state,      \* BlockchainState held by the caller (blockchain.ts:30-35)
    input,      \* the state object that was passed to the last addVote, as it is after the call
    lastCall,   \* the block the last addVote returned and the voter hash passed to it
    now,        \* the last reading of the wall clock, Date.now()
    shPc,       \* SpecShamir: "start", "split", "failed", "combined", "combinedAny" or "decoded"
    shSecret,   \* SpecShamir: the secret given to shamirSplit
    shN,        \* SpecShamir: the number of shares asked of shamirSplit
    shK,        \* SpecShamir: the threshold given to shamirSplit
    shShares,   \* SpecShamir: what shamirSplit returned
    shPicked,   \* SpecShamir: the shares handed to shamirCombine
    shResult,   \* SpecShamir: what shamirCombine returned
    tChain,     \* SpecTamper: a chain that validateChain accepts
    tEdit,      \* SpecTamper: the single field change applied to tChain
    tVerdict,   \* SpecTamper: validateChain of the changed chain
    call,       \* SpecGF, SpecPow: the last call of a pure function and its result
    voters,     \* SpecAuth: MOCK_VOTERS, the record of each registered National ID
    authClock,  \* SpecAuth: the wall clock read by Date.now()
    authLast,   \* SpecAuth: the last authenticateVoter call and what it returned
    mine,       \* SpecMine: the locals of one mineBlock call and its position in the loop
    fork,       \* SpecFork: two addVote calls started on the same state and the state adopted
    app         \* SpecApp: the React state of the Index component and its pending submissions

ledgerVars == <<state, input, lastCall, now>>
shamirVars == <<shPc, shSecret, shN, shK, shShares, shPicked, shResult>>
tamperVars == <<tChain, tEdit, tVerdict>>
callVars == <<call>>
authVars == <<voters, authClock, authLast>>
mineVars == <<mine>>
forkVars == <<fork>>
appVars == <<app>>
vars == <<state, input, lastCall, now, shPc, shSecret, shN, shK, shShares,
          shPicked, shResult, tChain, tEdit, tVerdict, call, voters,
          authClock, authLast, mine, fork, app>>

-----------------------------------------------------------------------------
(* Bounds *)

MaxBlocks == 2          \* votes appended in one run of Spec
MaxVoter == 1           \* voter hashes are 0..MaxVoter (0 is '0'.repeat(64))
MaxZeros == 1           \* digests have 0..MaxZeros leading '0' characters
MaxAttempts == 1        \* stands for the attempt ceiling of mineBlock
MaxShares == 3          \* n of shamirSplit is at most MaxShares
MaxSecretLen == 1       \* secrets have at most MaxSecretLen bytes
MaxTamperBlocks == 2    \* non-genesis blocks of the chains of SpecTamper
MaxHashLen == 4         \* characters of the hash strings given to verifyProofOfWork
MaxAuthTime == 7        \* the clock of SpecAuth reads 1..MaxAuthTime times 100 seconds

-----------------------------------------------------------------------------
(* Bit operations on non-negative integers *)

RECURSIVE BitXor(_, _)
BitXor(a, b) ==
    IF a = 0 THEN b
    ELSE IF b = 0 THEN a
    ELSE ((a + b) % 2) + 2 * BitXor(a \div 2, b \div 2)

\* x & 0x100 is non-zero
Bit8(x) == (x \div 256) % 2 = 1

-----------------------------------------------------------------------------
(* GF(256) tables, crypto.ts:124-137 *)

Bytes == 0..255

\* one iteration of the for loop of initGF256, st holding x and the two tables
InitStep(i, st) ==
    LET x1 == st.x * 2
    IN [exp |-> [st.exp EXCEPT ![i] = st.x % 256],
        log |-> [st.log EXCEPT ![st.x] = i],
        x |-> IF Bit8(x1) THEN BitXor(x1, 283) ELSE x1]

\* iterations lo..hi of the for loop, in order (the first half is computed
\* before the second half starts; x is below 0x100 after every iteration)
RECURSIVE InitLoop(_, _, _)
InitLoop(lo, hi, st) ==
    IF lo = hi THEN InitStep(lo, st)
    ELSE LET mid == (lo + hi) \div 2
             half == InitLoop(lo, mid, st)
         IN IF half.x < 256 THEN InitLoop(mid + 1, hi, half) ELSE half

initGF256 ==
    LET st == InitLoop(0, 254, [exp |-> [i \in Bytes |-> 0],
                                log |-> [i \in Bytes |-> 0],
                                x |-> 1])
    IN [exp |-> [st.exp EXCEPT ![255] = st.exp[0]], log |-> st.log]

EXP_TABLE == initGF256.exp
LOG_TABLE == initGF256.log

\* crypto.ts:139-142
gfMul(a, b) ==
    IF a = 0 \/ b = 0 THEN 0
    ELSE EXP_TABLE[(LOG_TABLE[a] + LOG_TABLE[b]) % 255]

\* a division that tests the dividend before the divisor
gfDiv_zeroDividendFirst(a, b) ==
    IF a = 0 THEN 0
    ELSE IF b = 0 THEN -1
    ELSE EXP_TABLE[(LOG_TABLE[a] - LOG_TABLE[b] + 255) % 255]

\* crypto.ts:144-148; the result -1 stands for the raised Error('Division by zero')
gfDiv(a, b) ==
    IF b = 0 THEN -1
    ELSE IF a = 0 THEN 0
    ELSE EXP_TABLE[(LOG_TABLE[a] - LOG_TABLE[b] + 255) % 255]

-----------------------------------------------------------------------------
(* Shamir secret sharing, crypto.ts:153-226 *)

\* the inner loop of shamirSplit (crypto.ts:182-185): the polynomial with
\* coefficients coef (coef[1] the constant term) evaluated at x
RECURSIVE EvalPoly(_, _, _, _, _)
EvalPoly(coef, x, i, y, xPow) ==
    IF i > Len(coef) THEN y
    ELSE EvalPoly(coef, x, i + 1, BitXor(y, gfMul(coef[i], xPow)), gfMul(xPow, x))

\* a split that lacks the lower bound on the threshold
shamirSplit_noLowerBound(secret, n, k, rnd) ==
    IF k > n THEN [err |-> "Threshold cannot exceed total shares", shares |-> <<>>]
    ELSE [err |-> "none",
          shares |-> [s \in 1..n |->
                        [x |-> s,
                         y |-> [b \in 1..Len(secret) |->
                                  EvalPoly(<<secret[b]>> \o rnd[b], s, 1, 0, 1)]]]]

\* shamirSplit(secret, n, k); rnd[b] are the k-1 random bytes drawn for byte b
shamirSplit(secret, n, k, rnd) ==
    IF k > n THEN [err |-> "Threshold cannot exceed total shares", shares |-> <<>>]
    ELSE IF k < 2 THEN [err |-> "Threshold must be at least 2", shares |-> <<>>]
    ELSE [err |-> "none",
          shares |-> [s \in 1..n |->
                        [x |-> s,
                         y |-> [b \in 1..Len(secret) |->
                                  EvalPoly(<<secret[b]>> \o rnd[b], s, 1, 0, 1)]]]]

\* the loop over j of shamirCombine (crypto.ts:211-217) for share i
RECURSIVE Lagrange(_, _, _, _)
Lagrange(shares, i, j, lagrange) ==
    IF j > Len(shares) THEN lagrange
    ELSE IF i = j THEN Lagrange(shares, i, j + 1, lagrange)
    ELSE LET num == shares[j].x
             den == BitXor(shares[i].x, shares[j].x)
             q == gfDiv(num, den)
         IN IF q = -1 THEN -1
            ELSE Lagrange(shares, i, j + 1, gfMul(lagrange, q))

\* the loop over i of shamirCombine (crypto.ts:208-220) for one byte
RECURSIVE CombineByte(_, _, _, _)
CombineByte(shares, byteIdx, i, value) ==
    IF i > Len(shares) THEN value
    ELSE LET l == Lagrange(shares, i, 1, 1)
         IN IF l = -1 THEN -1
            ELSE CombineByte(shares, byteIdx, i + 1,
                             BitXor(value, gfMul(shares[i].y[byteIdx], l)))

\* a combine that accepts a single share
shamirCombine_atLeastOne(shares) ==
    IF Len(shares) < 1 THEN [err |-> "Need at least 2 shares", secret |-> <<>>]
    ELSE LET secretLength == Len(shares[1].y)
             bytes == [b \in 1..secretLength |-> CombineByte(shares, b, 1, 0)]
         IN IF \E b \in 1..secretLength : bytes[b] = -1
            THEN [err |-> "Division by zero", secret |-> <<>>]
            ELSE [err |-> "none", secret |-> bytes]

\* crypto.ts:197-226; err names the Error that was thrown, "none" if none was
shamirCombine(shares) ==
    IF Len(shares) < 2 THEN [err |-> "Need at least 2 shares", secret |-> <<>>]
    ELSE LET secretLength == Len(shares[1].y)
             bytes == [b \in 1..secretLength |-> CombineByte(shares, b, 1, 0)]
         IN IF \E b \in 1..secretLength : bytes[b] = -1
            THEN [err |-> "Division by zero", secret |-> <<>>]
            ELSE [err |-> "none", secret |-> bytes]

-----------------------------------------------------------------------------
(* Texts: a string is the sequence of its characters *)

DecimalDigits == <<"0", "1", "2", "3", "4", "5", "6", "7", "8", "9">>
HexDigits == DecimalDigits \o <<"a", "b", "c", "d", "e", "f">>

\* String.prototype.repeat
RECURSIVE repeat(_, _)
repeat(text, count) == IF count <= 0 THEN <<>> ELSE text \o repeat(text, count - 1)

\* String.prototype.startsWith
startsWith(text, prefix) ==
    /\ Len(prefix) <= Len(text)
    /\ \A i \in 1..Len(prefix) : text[i] = prefix[i]

\* String.prototype.padStart with a one-character filler
padStart(text, targetLength, filler) ==
    repeat(<<filler>>, targetLength - Len(text)) \o text

\* Number.prototype.toString(radix) of a non-negative integer
RECURSIVE toString(_, _)
toString(number, radix) ==
    IF number < radix THEN <<HexDigits[number + 1]>>
    ELSE toString(number \div radix, radix) \o <<HexDigits[(number % radix) + 1]>>

\* the letters the texts of shares are made of, folded to lower case (the
\* /i flag of the pattern of decodeShare)
toLowerCase(c) ==
    CASE c = "A" -> "a" [] c = "B" -> "b" [] c = "C" -> "c" [] c = "D" -> "d"
      [] c = "E" -> "e" [] c = "F" -> "f" [] c = "S" -> "s" [] c = "H" -> "h"
      [] c = "R" -> "r" [] OTHER -> c

\* the value of a digit character in radix 10 or 16, -1 if it is none
DigitValue(c, radix) ==
    LET found == {d \in 1..radix : HexDigits[d] = toLowerCase(c)}
    IN IF found = {} THEN -1 ELSE (CHOOSE d \in found : TRUE) - 1

\* parseInt(text, radix) of a non-empty text of digits of the radix
RECURSIVE parseInt(_, _)
parseInt(text, radix) ==
    IF Len(text) = 1 THEN DigitValue(text[1], radix)
    ELSE parseInt(SubSeq(text, 1, Len(text) - 1), radix) * radix
           + DigitValue(text[Len(text)], radix)

\* crypto.ts:17-21
RECURSIVE bufferToHex(_)
bufferToHex(buffer) ==
    IF Len(buffer) = 0 THEN <<>>
    ELSE padStart(toString(buffer[1], 16), 2, "0") \o bufferToHex(Tail(buffer))

\* crypto.ts:231-233
encodeShare(share) ==
    <<"S", "H", "A", "R", "D", "-">> \o padStart(toString(share.x, 10), 2, "0")
        \o <<":">> \o bufferToHex(share.y)

\* encoded.match(/^SHARD-(\d+):([a-f0-9]+)$/i): the two groups, or no match.
\* The digits of group 1 are the longest run of digits after the prefix (the
\* character after them must be the colon, which is no digit).
MatchShare(encoded) ==
    LET n == Len(encoded)
        prefix == <<"s", "h", "a", "r", "d", "-">>
        prefixOk == /\ n >= 6
                    /\ \A i \in 1..6 : toLowerCase(encoded[i]) = prefix[i]
        runs == {e \in 6..n : \A i \in 7..e : DigitValue(encoded[i], 10) >= 0}
        digitsEnd == CHOOSE e \in runs : \A f \in runs : f <= e
    IN IF /\ prefixOk
          /\ digitsEnd >= 7
          /\ digitsEnd + 2 <= n
          /\ encoded[digitsEnd + 1] = ":"
          /\ \A i \in (digitsEnd + 2)..n : DigitValue(encoded[i], 16) >= 0
       THEN [matched |-> TRUE,
             group1 |-> SubSeq(encoded, 7, digitsEnd),
             group2 |-> SubSeq(encoded, digitsEnd + 2, n)]
       ELSE [matched |-> FALSE, group1 |-> <<>>, group2 |-> <<>>]

\* text.match(/.{1,2}/g): the pieces of two characters, the last one of one
\* character when the length is odd
RECURSIVE MatchPairs(_)
MatchPairs(text) ==
    IF Len(text) <= 2 THEN <<text>>
    ELSE <<SubSeq(text, 1, 2)>> \o MatchPairs(SubSeq(text, 3, Len(text)))

\* crypto.ts:238-248; err names the Error that was thrown, "none" if none was
decodeShare(encoded) ==
    LET match == MatchShare(encoded)
    IN IF ~match.matched THEN [err |-> "Invalid share format", x |-> 0, y |-> <<>>]
       ELSE LET pieces == MatchPairs(match.group2)
            IN [err |-> "none",
                x |-> parseInt(match.group1, 10),
                y |-> [b \in 1..Len(pieces) |-> parseInt(pieces[b], 16)]]

-----------------------------------------------------------------------------
(* Strings and digests *)

\* Strings that serve as hashes are records: a literal string, or the SHA-256
\* digest of the text pre.  A text is the sequence of its parts, so that two
\* digests are equal exactly when their texts are (no collisions).
ZEROS_64 == [kind |-> "lit", pre |-> <<<<"zeros", 64>>>>]
GENESIS_HASH == [kind |-> "lit", pre |-> <<<<"GENESIS_HASH_ELECTORAL_COMMISSION_2024", 0>>>>]

\* crypto.ts:32-36
sha256(data) == [kind |-> "sha", pre |-> data]

\* Nonces are the numbers 0..MaxZeros (0 also stands for '0'.repeat(32)).
Nonces == 0..MaxZeros

\* Number of leading '0' characters of a hash string.  A digest is a fixed
\* function of its text; here the digest of a text ending in nonce z starts
\* with exactly z zeros, so that every outcome 0..MaxZeros can be drawn.
LeadingZeros(hash) ==
    IF hash.kind = "lit" THEN (IF hash = ZEROS_64 THEN 64 ELSE 0)
    ELSE hash.pre[Len(hash.pre)][2]

\* The characters of a hash string as far as a prefix of zeros can tell them
\* apart: its leading '0' characters and, unless it is all zeros, one
\* character that is not '0' in the place of the rest.
HashText(hash) ==
    repeat(<<"0">>, LeadingZeros(hash)) \o (IF hash = ZEROS_64 THEN <<>> ELSE <<"f">>)

\* hash.startsWith(target) with target = '0'.repeat(d), crypto.ts:258, 266
StartsWithZeros(hash, d) == startsWith(HashText(hash), repeat(<<"0">>, d))

\* a verification that always uses the default difficulty
verifyProofOfWork_defaultDifficulty(hash, difficulty) ==
    startsWith(hash, repeat(<<"0">>, 4))

\* crypto.ts:286-288, hash being the characters of the hash string
verifyProofOfWork(hash, difficulty) ==
    startsWith(hash, repeat(<<"0">>, difficulty))

\* a search that, over its ceiling, gives another nonce than the one hashed
RECURSIVE MineLoop_otherNonceAtCeiling(_, _, _, _, _)
MineLoop_otherNonceAtCeiling(data, previousHash, difficulty, draws, attempts0) ==
    LET attempts == attempts0 + 1
        nonce == draws[attempts]
        hash == sha256(data \o <<<<"text", previousHash>>, <<"text", nonce>>>>)
    IN IF StartsWithZeros(hash, difficulty)
       THEN [nonce |-> nonce, hash |-> hash, attempts |-> attempts]
       ELSE IF attempts > MaxAttempts
       THEN [nonce |-> nonce + 1, hash |-> hash, attempts |-> attempts]
       ELSE MineLoop_otherNonceAtCeiling(data, previousHash, difficulty, draws, attempts)

\* crypto.ts:253-281: the while loop from the state attempts on; draws[a] is
\* the nonce generateNonce() returns at attempt a.  The yield at every 100th
\* attempt changes no value.
RECURSIVE MineLoop(_, _, _, _, _)
MineLoop(data, previousHash, difficulty, draws, attempts0) ==
    LET attempts == attempts0 + 1
        nonce == draws[attempts]
        hash == sha256(data \o <<<<"text", previousHash>>, <<"text", nonce>>>>)
    IN IF StartsWithZeros(hash, difficulty)
       THEN [nonce |-> nonce, hash |-> hash, attempts |-> attempts]
       ELSE IF attempts > MaxAttempts
       THEN [nonce |-> nonce, hash |-> hash, attempts |-> attempts]
       ELSE MineLoop(data, previousHash, difficulty, draws, attempts)

mineBlock(data, previousHash, difficulty, draws) ==
    MineLoop(data, previousHash, difficulty, draws, 0)

-----------------------------------------------------------------------------
(* The ledger, blockchain.ts *)

\* blockchain.ts:38-47; 'GENESIS' is payload 0, '0'.repeat(64) voter hash 0.
\* Times are milliseconds counted from 1700000000000, the genesis timestamp.
GENESIS_BLOCK ==
    [index |-> 0,
     timestamp |-> 0,
     encryptedVote |-> 0,
     voterHash |-> 0,
     previousHash |-> ZEROS_64,
     nonce |-> 0,
     hash |-> GENESIS_HASH,
     difficulty |-> 4]

\* blockchain.ts:52-59; clock is the reading of Date.now()
createBlockchain(clock) ==
    [chain |-> <<GENESIS_BLOCK>>,
     pendingVotes |-> <<>>,
     isValid |-> TRUE,
     lastValidated |-> clock]

\* a digest that leaves the voter hash out
calculateBlockHash_noVoterHash(block) ==
    sha256(<< <<"index", block.index>>,
              <<"timestamp", block.timestamp>>,
              <<"encryptedVote", block.encryptedVote>>,
              <<"previousHash", block.previousHash>>,
              <<"nonce", block.nonce>> >>)

\* blockchain.ts:64-74: JSON.stringify of the six fields, then sha256
calculateBlockHash(block) ==
    sha256(<< <<"index", block.index>>,
              <<"timestamp", block.timestamp>>,
              <<"encryptedVote", block.encryptedVote>>,
              <<"voterHash", block.voterHash>>,
              <<"previousHash", block.previousHash>>,
              <<"nonce", block.nonce>> >>)

\* JSON.stringify(blockData) of blockchain.ts:105
StringifyBlockData(blockData) ==
    << <<"index", blockData.index>>,
       <<"timestamp", blockData.timestamp>>,
       <<"encryptedVote", blockData.encryptedVote>>,
       <<"voterHash", blockData.voterHash>>,
       <<"previousHash", blockData.previousHash>>,
       <<"difficulty", blockData.difficulty>> >>

\* a Map.set that keeps the entry a key already has
MapSet_keepExisting(m, key, value) ==
    [k \in (DOMAIN m) \cup {key} |-> IF k \in DOMAIN m THEN m[k] ELSE value]

\* blockchain.ts:118-119: new Map(m) followed by set(key, value)
MapSet(m, key, value) ==
    [k \in (DOMAIN m) \cup {key} |-> IF k = key THEN value ELSE m[k]]

\* a block data that repeats the tail's index
PrepareBlockData_sameIndex(previousBlock, encryptedVote, voterHash, difficulty, clock) ==
    [index |-> previousBlock.index,
     timestamp |-> clock,
     encryptedVote |-> encryptedVote,
     voterHash |-> voterHash,
     previousHash |-> previousBlock.hash,
     difficulty |-> difficulty]

\* blockchain.ts:94-101, clock being the reading of Date.now()
PrepareBlockData(previousBlock, encryptedVote, voterHash, difficulty, clock) ==
    [index |-> previousBlock.index + 1,
     timestamp |-> clock,
     encryptedVote |-> encryptedVote,
     voterHash |-> voterHash,
     previousHash |-> previousBlock.hash,
     difficulty |-> difficulty]

\* an update that pushes the block onto the chain of the input state and
\* sets the entry in its map
UpdateState_inPlace(st, newBlock, voterHash, clock) ==
    LET newChain == Append(st.chain, newBlock)
        newPendingVotes == MapSet(st.pendingVotes, voterHash, newBlock)
    IN [state |-> [chain |-> newChain,
                   pendingVotes |-> newPendingVotes,
                   isValid |-> TRUE,
                   lastValidated |-> clock],
        input |-> [st EXCEPT !.chain = newChain,
                             !.pendingVotes = newPendingVotes]]

\* blockchain.ts:116-129: the returned state, built from copies of the chain
\* and the map; input is the state object that was passed, which no
\* statement writes to
UpdateState(st, newBlock, voterHash, clock) ==
    LET newChain == Append(st.chain, newBlock)
        newPendingVotes == MapSet(st.pendingVotes, voterHash, newBlock)
    IN [state |-> [chain |-> newChain,
                   pendingVotes |-> newPendingVotes,
                   isValid |-> TRUE,
                   lastValidated |-> clock],
        input |-> st]

\* blockchain.ts:84-133.  t0 is the clock when the call starts, t1 when the
\* mining is over; draws are the nonces of the search.
addVote(st, encryptedVote, voterHash, difficulty, draws, t0, t1) ==
    LET startTime == t0
        previousBlock == st.chain[Len(st.chain)]
        blockData == PrepareBlockData(previousBlock, encryptedVote, voterHash,
                                      difficulty, t0)
        mined == mineBlock(StringifyBlockData(blockData), previousBlock.hash,
                           difficulty, draws)
        newBlock == [index |-> blockData.index,
                     timestamp |-> blockData.timestamp,
                     encryptedVote |-> blockData.encryptedVote,
                     voterHash |-> blockData.voterHash,
                     previousHash |-> blockData.previousHash,
                     difficulty |-> blockData.difficulty,
                     nonce |-> mined.nonce,
                     hash |-> mined.hash]
        updated == UpdateState(st, newBlock, voterHash, t1)
        miningTime == t1 - startTime
    IN [state |-> updated.state,
        block |-> newBlock,
        miningTime |-> miningTime,
        attempts |-> mined.attempts,
        input |-> updated.input]

\* a loop that recomputes the hash before it looks at the linkage
RECURSIVE ValidateFrom_hashBeforeLinkage(_, _)
ValidateFrom_hashBeforeLinkage(chain, i) ==
    IF i >= Len(chain)
    THEN [isValid |-> TRUE, invalidBlockIndex |-> "null", error |-> <<"null">>]
    ELSE LET currentBlock == chain[i + 1]
             previousBlock == chain[i]
         IN IF currentBlock.index # previousBlock.index + 1
            THEN [isValid |-> FALSE, invalidBlockIndex |-> i,
                  error |-> <<"Index discontinuity at block ", i>>]
            ELSE IF calculateBlockHash(currentBlock) # currentBlock.hash
            THEN [isValid |-> FALSE, invalidBlockIndex |-> i,
                  error |-> <<"Hash mismatch at block ", i>>]
            ELSE IF currentBlock.previousHash # previousBlock.hash
            THEN [isValid |-> FALSE, invalidBlockIndex |-> i,
                  error |-> <<"Hash chain broken at block ", i>>]
            ELSE IF ~verifyProofOfWork(HashText(currentBlock.hash), currentBlock.difficulty)
            THEN [isValid |-> FALSE, invalidBlockIndex |-> i,
                  error |-> <<"Invalid PoW at block ", i>>]
            ELSE IF currentBlock.timestamp < previousBlock.timestamp
            THEN [isValid |-> FALSE, invalidBlockIndex |-> i,
                  error |-> <<"Timestamp violation at block ", i>>]
            ELSE ValidateFrom_hashBeforeLinkage(chain, i + 1)

\* blockchain.ts:153-211: the for loop from block i on (chain[i+1] here,
\* sequences being 1-based)
RECURSIVE ValidateFrom(_, _)
ValidateFrom(chain, i) ==
    IF i >= Len(chain)
    THEN [isValid |-> TRUE, invalidBlockIndex |-> "null", error |-> <<"null">>]
    ELSE LET currentBlock == chain[i + 1]
             previousBlock == chain[i]
         IN IF currentBlock.index # previousBlock.index + 1
            THEN [isValid |-> FALSE, invalidBlockIndex |-> i,
                  error |-> <<"Index discontinuity at block ", i>>]
            ELSE IF currentBlock.previousHash # previousBlock.hash
            THEN [isValid |-> FALSE, invalidBlockIndex |-> i,
                  error |-> <<"Hash chain broken at block ", i>>]
            ELSE IF calculateBlockHash(currentBlock) # currentBlock.hash
            THEN [isValid |-> FALSE, invalidBlockIndex |-> i,
                  error |-> <<"Hash mismatch at block ", i>>]
            ELSE IF ~verifyProofOfWork(HashText(currentBlock.hash), currentBlock.difficulty)
            THEN [isValid |-> FALSE, invalidBlockIndex |-> i,
                  error |-> <<"Invalid PoW at block ", i>>]
            ELSE IF currentBlock.timestamp < previousBlock.timestamp
            THEN [isValid |-> FALSE, invalidBlockIndex |-> i,
                  error |-> <<"Timestamp violation at block ", i>>]
            ELSE ValidateFrom(chain, i + 1)

\* a validation that does not look at the index of the first block
validateChain_noGenesisCheck(chain) ==
    IF Len(chain) = 0
    THEN [isValid |-> FALSE, invalidBlockIndex |-> 0, error |-> <<"Empty chain">>]
    ELSE ValidateFrom(chain, 1)

\* blockchain.ts:138-214
validateChain(chain) ==
    IF Len(chain) = 0
    THEN [isValid |-> FALSE, invalidBlockIndex |-> 0, error |-> <<"Empty chain">>]
    ELSE IF chain[1].index # 0
    THEN [isValid |-> FALSE, invalidBlockIndex |-> 0, error |-> <<"Invalid genesis block">>]
    ELSE ValidateFrom(chain, 1)

\* statistics that count the blocks as the voters
getVoteStatistics_countBlocks(st) ==
    LET uniqueVoters == Len(st.chain) - 1
        lastBlock == st.chain[Len(st.chain)]
    IN [totalBlocks |-> Len(st.chain) - 1,
        uniqueVoters |-> uniqueVoters,
        lastBlockTime |-> IF lastBlock.index > 0 THEN <<lastBlock.timestamp>> ELSE <<>>,
        chainIntegrity |-> st.isValid]

\* blockchain.ts:220-235; lastBlockTime is <<>> for null
getVoteStatistics(st) ==
    LET uniqueVoters == Cardinality(DOMAIN st.pendingVotes)
        lastBlock == st.chain[Len(st.chain)]
    IN [totalBlocks |-> Len(st.chain) - 1,
        uniqueVoters |-> uniqueVoters,
        lastBlockTime |-> IF lastBlock.index > 0 THEN <<lastBlock.timestamp>> ELSE <<>>,
        chainIntegrity |-> st.isValid]

-----------------------------------------------------------------------------
(* Spec: the ledger under serialized addVote calls *)

GenesisTime == GENESIS_BLOCK.timestamp
\* the readings of Date.now(): the genesis time and a later time.  Date.now()
\* is the system's wall clock, which follows every adjustment of the system
\* time: a later reading may be lower than an earlier one.
ClockValues == {GenesisTime, GenesisTime + 1}
Voters == 0..MaxVoter
Votes == {1}
Difficulties == {0, 1}
DrawSeqs == [1..(MaxAttempts + 1) -> Nonces]

\* the search ends at the attempt that draws this nonce (crypto.ts:266)
EndsSearch(nonce, difficulty) ==
    StartsWithZeros(sha256(<<<<"text", nonce>>>>), difficulty)

\* The nonces a search at this difficulty draws, attempt by attempt: none is
\* drawn after the attempt that ends the search (the places of draws that
\* are not used hold 0).
Draws(difficulty) ==
    {draws \in DrawSeqs :
        \A a \in 1..MaxAttempts : EndsSearch(draws[a], difficulty) =>
            \A b \in (a + 1)..(MaxAttempts + 1) : draws[b] = 0}

IdleShamir ==
    /\ shPc = "idle" /\ shSecret = <<>> /\ shN = 0 /\ shK = 0
    /\ shShares = <<>> /\ shPicked = <<>> /\ shResult = <<>>

IdleTamper ==
    /\ tChain = <<>> /\ tEdit = <<>> /\ tVerdict = <<>>

IdleCall == call = [op |-> "none"]

IdleAuth ==
    /\ voters = <<>> /\ authClock = 0 /\ authLast = [called |-> FALSE]

IdleMine == mine = [pc |-> "off"]

IdleFork == fork = [pc |-> "off"]

IdleApp == app = [pc |-> "off"]

Init ==
    /\ now \in ClockValues
    /\ state = createBlockchain(now)
    /\ input = state
    /\ lastCall = [called |-> FALSE]
    /\ IdleShamir
    /\ IdleTamper
    /\ IdleCall
    /\ IdleAuth
    /\ IdleMine
    /\ IdleFork
    /\ IdleApp

\* one call of addVote on the state the caller holds; the caller adopts the
\* returned state (README.md:249-256).  clock is what Date.now() reads during
\* the call, whatever it read before (the readings of one call are equal).
AddVote ==
    /\ Len(state.chain) <= MaxBlocks
    /\ \E encryptedVote \in Votes, voterHash \in Voters,
          difficulty \in Difficulties, clock \in ClockValues :
       \E draws \in Draws(difficulty) :
         LET r == addVote(state, encryptedVote, voterHash, difficulty, draws,
                          clock, clock)
         IN /\ state' = r.state
            /\ input' = r.input
            /\ lastCall' = [called |-> TRUE, block |-> r.block,
                            voterHash |-> voterHash]
            /\ now' = clock
    /\ UNCHANGED <<shamirVars, tamperVars, callVars, authVars, mineVars, forkVars, appVars>>

Next == AddVote

Spec == Init /\ [][Next]_vars

\* the positions of the non-genesis blocks of a chain
Appended(chain) == 2..Len(chain)

\* C2: every chain built from createBlockchain() by serialized addVote calls
\* is accepted by validateChain.
C2_AppendedChainValidates == validateChain(state.chain).isValid

\* C3: the hash of every block returned by addVote satisfies the
\* proof-of-work condition at the block's own difficulty.
C3_ReturnedBlockMeetsDifficulty ==
    lastCall.called
        => verifyProofOfWork(HashText(lastCall.block.hash), lastCall.block.difficulty)

\* C4: the hash of every appended block is the digest that calculateBlockHash
\* recomputes from the block's own fields.
C4_HashIsDigestOfOwnFields ==
    \A i \in Appended(state.chain) :
        state.chain[i].hash = calculateBlockHash(state.chain[i])

\* C7: chain[0] is the genesis block and every later block has the index of
\* its position, one more than its predecessor's, and links to the
\* predecessor's hash.
C7_IndexAndLinkage ==
    /\ state.chain[1] = GENESIS_BLOCK
    /\ state.chain[1].index = 0
    /\ \A i \in Appended(state.chain) :
         /\ state.chain[i].index = i - 1
         /\ state.chain[i].index = state.chain[i - 1].index + 1
         /\ state.chain[i].previousHash = state.chain[i - 1].hash

C7_Witness ==
    /\ Len(state.chain) >= 3
    /\ state.chain[2].previousHash = GENESIS_HASH
    /\ state.chain[3].previousHash = state.chain[2].hash

\* the greatest position of a block of voter v
LatestOf(chain, v) ==
    CHOOSE i \in Appended(chain) :
        /\ chain[i].voterHash = v
        /\ \A j \in Appended(chain) : chain[j].voterHash = v => j <= i

\* C19: in every chain produced by addVote from the genesis state, each
\* block's timestamp is greater than or equal to the timestamp of the block
\* before it.
C19_TimestampsNonDecreasing ==
    \A i \in Appended(state.chain) :
        state.chain[i].timestamp >= state.chain[i - 1].timestamp

\* C8: pendingVotes has exactly the voter hashes of the non-genesis blocks as
\* keys and maps each to the block of greatest index with that voter hash.
C8_LatestPerVoter ==
    /\ DOMAIN state.pendingVotes
         = {state.chain[i].voterHash : i \in Appended(state.chain)}
    /\ \A v \in DOMAIN state.pendingVotes :
         state.pendingVotes[v] = state.chain[LatestOf(state.chain, v)]

\* a voter with two blocks in the chain, the map holding the later one
C8_Witness ==
    /\ Len(state.chain) >= 3
    /\ state.chain[2].voterHash = state.chain[3].voterHash
    /\ state.chain[2] # state.chain[3]
    /\ state.pendingVotes[state.chain[3].voterHash] = state.chain[3]

C9_Counts ==
    /\ getVoteStatistics(state).uniqueVoters
         = Cardinality({state.chain[i].voterHash : i \in Appended(state.chain)})
    /\ getVoteStatistics(state).totalBlocks
         = Cardinality(Appended(state.chain))

C9_Revote ==
    (state' # state /\ lastCall'.voterHash \in DOMAIN state.pendingVotes)
        => /\ getVoteStatistics(state').uniqueVoters
                = getVoteStatistics(state).uniqueVoters
           /\ state'.pendingVotes[lastCall'.voterHash] = lastCall'.block

\* C9: getVoteStatistics reports the number of distinct voter hashes among
\* the appended blocks as uniqueVoters and the number of appended blocks as
\* totalBlocks; a vote with an already used voter hash leaves uniqueVoters
\* unchanged and makes the new block the map entry of that voter.
C9_Statistics == []C9_Counts /\ [][C9_Revote]_vars

\* two votes of one voter: two blocks, one unique voter
C9_Witness ==
    /\ getVoteStatistics(state).totalBlocks = 2
    /\ getVoteStatistics(state).uniqueVoters = 1

\* C10: the chain addVote returns is the input chain followed by exactly one
\* new block, and the call leaves the input state's chain and map unchanged
\* (the steps that change state are the addVote calls).
C10_CopyOnAppend ==
    [][state' # state =>
        /\ Len(state'.chain) = Len(state.chain) + 1
        /\ SubSeq(state'.chain, 1, Len(state.chain)) = state.chain
        /\ state'.chain[Len(state'.chain)] = lastCall'.block
        /\ input'.chain = state.chain
        /\ input'.pendingVotes = state.pendingVotes]_vars

\* a call whose input already held an appended block and a map entry
C10_Witness ==
    /\ lastCall.called
    /\ Len(input.chain) >= 2
    /\ DOMAIN input.pendingVotes # {}
    /\ Len(state.chain) = Len(input.chain) + 1

-----------------------------------------------------------------------------
(* SpecShamir: shamirSplit, then shamirCombine on some of the shares *)

ByteSamples == {0, 1, 3, 255}

IdleLedger ==
    /\ now = GenesisTime
    /\ state = createBlockchain(now)
    /\ input = state
    /\ lastCall = [called |-> FALSE]

InitShamir ==
    /\ shPc = "start" /\ shSecret = <<>> /\ shN = 0 /\ shK = 0
    /\ shShares = <<>> /\ shPicked = <<>> /\ shResult = <<>>
    /\ IdleLedger
    /\ IdleTamper
    /\ IdleCall
    /\ IdleAuth
    /\ IdleMine
    /\ IdleFork
    /\ IdleApp

\* shamirSplit on a drawn secret, n, k and drawn random coefficients
Split ==
    /\ shPc = "start"
    /\ \E len \in 0..MaxSecretLen, n \in 1..MaxShares, k \in 1..MaxShares :
       \E secret \in [1..len -> ByteSamples],
          rnd \in [1..len -> [1..(k - 1) -> ByteSamples]] :
         LET r == shamirSplit(secret, n, k, rnd)
         IN /\ shSecret' = secret
            /\ shN' = n
            /\ shK' = k
            /\ shShares' = r.shares
            /\ shPc' = IF r.err = "none" THEN "split" ELSE "failed"
            /\ shResult' = [err |-> r.err, secret |-> <<>>]
    /\ UNCHANGED <<shPicked, ledgerVars, tamperVars, callVars, authVars, mineVars, forkVars, appVars>>

\* the injective sequences of m indices into 1..n
Picks(n, m) == {p \in [1..m -> 1..n] : \A i, j \in 1..m : i # j => p[i] # p[j]}

\* shamirCombine on any non-empty selection of the shares, in any order
Combine ==
    /\ shPc = "split"
    /\ \E m \in 1..Len(shShares) : \E p \in Picks(Len(shShares), m) :
         LET picked == [i \in 1..m |-> shShares[p[i]]]
         IN /\ shPicked' = picked
            /\ shResult' = shamirCombine(picked)
    /\ shPc' = "combined"
    /\ UNCHANGED <<shSecret, shN, shK, shShares, ledgerVars, tamperVars, callVars, authVars, mineVars, forkVars, appVars>>

\* the x values and the bytes of the share lists given to shamirCombine directly
XSamples == {0, 1, 2}
YSamples == {0, 3}

\* shamirCombine on any list of shares, whatever their x values (the shares
\* of one list carry the same number of bytes, as decoded shares of one
\* secret do)
CombineAny ==
    /\ shPc = "start"
    /\ \E m \in 0..MaxShares, len \in 0..MaxSecretLen :
       \E shares \in [1..m -> [x : XSamples, y : [1..len -> YSamples]]] :
         /\ shPicked' = shares
         /\ shResult' = shamirCombine(shares)
    /\ shPc' = "combinedAny"
    /\ UNCHANGED <<shSecret, shN, shK, shShares, ledgerVars, tamperVars, callVars, authVars, mineVars, forkVars, appVars>>

\* one of the shares of shamirSplit is encoded as text and the text decoded
EncodeDecode ==
    /\ shPc = "split"
    /\ \E i \in 1..Len(shShares) :
         LET text == encodeShare(shShares[i])
         IN /\ shPicked' = <<shShares[i]>>
            /\ shResult' = [text |-> text, decoded |-> decodeShare(text)]
    /\ shPc' = "decoded"
    /\ UNCHANGED <<shSecret, shN, shK, shShares, ledgerVars, tamperVars, callVars, authVars, mineVars, forkVars, appVars>>

NextShamir == Split \/ Combine \/ CombineAny \/ EncodeDecode

SpecShamir == InitShamir /\ [][NextShamir]_vars

\* C1: combining any k of the n shares of shamirSplit(S, n, k) returns
\* exactly S, for every choice of the random coefficients.
C1_RoundTrip ==
    (shPc = "combined" /\ Len(shPicked) = shK)
        => (shResult.err = "none" /\ shResult.secret = shSecret)

\* the shares of a list have pairwise different x values
DistinctX(shares) ==
    \A i, j \in 1..Len(shares) : i # j => shares[i].x # shares[j].x

\* C13 as stated: shamirCombine raises 'Need at least 2 shares' for 0 or 1
\* shares and, for every list of 2 or more shares whatever their x values,
\* returns a byte sequence without raising an error.
C13_CombineFailsOnlyBelowTwoShares ==
    shPc = "combinedAny" =>
        /\ Len(shPicked) < 2 => shResult.err = "Need at least 2 shares"
        /\ Len(shPicked) >= 2 => shResult.err = "none"

\* C13 amended: 'Need at least 2 shares' is raised exactly for 0 or 1
\* shares; 2 or more shares with pairwise different x values give a byte
\* sequence of the length of the first share's y without an error; 2 or more
\* shares of which two have the same x give 'Division by zero' when y is
\* not empty, and the empty sequence when it is.
C13_CombineErrors ==
    shPc = "combinedAny" =>
        /\ shResult.err = "Need at least 2 shares" <=> Len(shPicked) < 2
        /\ (Len(shPicked) >= 2 /\ DistinctX(shPicked)) =>
              /\ shResult.err = "none"
              /\ Len(shResult.secret) = Len(shPicked[1].y)
              /\ \A b \in 1..Len(shResult.secret) : shResult.secret[b] \in Bytes
        /\ (Len(shPicked) >= 2 /\ ~DistinctX(shPicked)) =>
              IF Len(shPicked[1].y) = 0
              THEN shResult = [err |-> "none", secret |-> <<>>]
              ELSE shResult.err = "Division by zero"

\* two shares with different x values and one byte each were combined
C13_Witness ==
    /\ shPc = "combinedAny"
    /\ Len(shPicked) = 2
    /\ shPicked[1].x # shPicked[2].x
    /\ Len(shPicked[1].y) = 1
    /\ shResult.err = "none"

\* C14: shamirSplit raises its threshold error exactly when k < 2 or k > n,
\* returning no shares, and for 2 <= k <= n raises nothing and returns n
\* shares.
C14_SplitThreshold ==
    shPc \in {"split", "failed"} =>
        /\ shPc = "failed" <=> (shK < 2 \/ shK > shN)
        /\ shPc = "failed" =>
              /\ shShares = <<>>
              /\ shResult.err \in {"Threshold cannot exceed total shares",
                                   "Threshold must be at least 2"}
        /\ shPc = "split" =>
              /\ shResult.err = "none"
              /\ Len(shShares) = shN

\* a threshold below 2 that does not exceed n was refused
C14_Witness ==
    /\ shPc = "failed"
    /\ shK < 2
    /\ shK <= shN
    /\ shShares = <<>>

\* C15: for every share s that shamirSplit returned (the empty secret
\* included), decodeShare(encodeShare(s)) has the x and the bytes y of s, and
\* the text is SHARD- followed by two digits, a colon and two hex digits for
\* each byte of y.
C15_ShareTextRoundTrip ==
    shPc = "decoded" =>
        LET share == shPicked[1]
            text == shResult.text
        IN /\ shResult.decoded.err = "none"
           /\ shResult.decoded.x = share.x
           /\ shResult.decoded.y = share.y
           /\ Len(text) = 9 + 2 * Len(share.y)
           /\ SubSeq(text, 1, 6) = <<"S", "H", "A", "R", "D", "-">>
           /\ \A i \in 7..8 : DigitValue(text[i], 10) >= 0
           /\ text[9] = ":"
           /\ \A i \in 10..Len(text) : DigitValue(text[i], 16) >= 0

\* the sets of m of the n share positions
SharePositions(n, m) == {held \in SUBSET (1..n) : Cardinality(held) = m}

\* C11: fewer than k shares carry no information about the secret: for every
\* secret byte, every k-1 of the shares shamirSplit returned for it and every
\* candidate byte, some choice of the random coefficients makes shamirSplit
\* of the candidate return the same k-1 shares.
C11_FewerThanKSharesCarryNoInformation ==
    shPc = "split" =>
        \A b \in 1..Len(shSecret) :
        \A held \in SharePositions(shN, shK - 1) :
        \A candidate \in Bytes :
        \E coefficients \in [1..(shK - 1) -> Bytes] :
            LET r == shamirSplit(<<candidate>>, shN, shK, <<coefficients>>)
            IN \A i \in held : r.shares[i].y[1] = shShares[i].y[b]

-----------------------------------------------------------------------------
(* SpecTamper: validateChain on accepted chains with one field changed *)

Fields == {"index", "timestamp", "encryptedVote", "voterHash",
           "previousHash", "nonce", "hash", "difficulty"}

\* the hash strings at hand: the two literals, the hashes stored in the
\* chain and the digests of its blocks
HashValues(chain) ==
    {ZEROS_64, GENESIS_HASH}
        \cup {chain[i].hash : i \in 1..Len(chain)}
        \cup {chain[i].previousHash : i \in 1..Len(chain)}
        \cup {calculateBlockHash(chain[i]) : i \in 1..Len(chain)}

\* the values a field of a block of chain may be given
FieldValues(field, chain) ==
    CASE field = "index" -> 0..(Len(chain) + 1)
      [] field = "timestamp" -> ClockValues
      [] field = "encryptedVote" -> {0} \cup Votes
      [] field = "voterHash" -> Voters
      [] field = "previousHash" -> HashValues(chain)
      [] field = "nonce" -> Nonces
      [] field = "hash" -> HashValues(chain)
      [] field = "difficulty" -> Difficulties \cup {GENESIS_BLOCK.difficulty}

\* the timestamps and voter hashes of the blocks of the accepted chains
SampleTimes == ClockValues
SampleVoters == {1}

NoEdit(chain) == [pos |-> 0, field |-> "none", chain |-> chain]

InitTamper ==
    /\ tChain = <<GENESIS_BLOCK>>
    /\ tEdit = NoEdit(tChain)
    /\ tVerdict = validateChain(tChain)
    /\ IdleLedger
    /\ IdleShamir
    /\ IdleCall
    /\ IdleAuth
    /\ IdleMine
    /\ IdleFork
    /\ IdleApp

\* lengthen the chain by any block that validateChain accepts at its end
Extend ==
    /\ tEdit.field = "none"
    /\ Len(tChain) <= MaxTamperBlocks
    /\ \E index \in FieldValues("index", tChain),
          timestamp \in SampleTimes, encryptedVote \in Votes,
          voterHash \in SampleVoters, nonce \in Nonces,
          difficulty \in Difficulties, previousHash \in HashValues(tChain) :
         LET fields == [index |-> index, timestamp |-> timestamp,
                        encryptedVote |-> encryptedVote, voterHash |-> voterHash,
                        previousHash |-> previousHash, nonce |-> nonce,
                        difficulty |-> difficulty, hash |-> ZEROS_64]
         IN \E hash \in HashValues(tChain) \cup {calculateBlockHash(fields)} :
              LET chain == Append(tChain, [fields EXCEPT !.hash = hash])
              IN /\ validateChain(chain).isValid
                 /\ tChain' = chain
                 /\ tEdit' = NoEdit(chain)
                 /\ tVerdict' = validateChain(chain)
    /\ UNCHANGED <<ledgerVars, shamirVars, callVars, authVars, mineVars, forkVars, appVars>>

\* change the value of one field of one block and validate the result
Tamper ==
    /\ tEdit.field = "none"
    /\ \E pos \in 1..Len(tChain), field \in Fields :
       \E value \in FieldValues(field, tChain) \ {tChain[pos][field]} :
         LET chain == [tChain EXCEPT ![pos][field] = value]
         IN /\ tEdit' = [pos |-> pos, field |-> field, chain |-> chain]
            /\ tVerdict' = validateChain(chain)
    /\ UNCHANGED <<tChain, ledgerVars, shamirVars, callVars, authVars, mineVars, forkVars, appVars>>

\* validate what is left of the chain when its first blocks are taken away:
\* the empty chain, or a chain that starts with a block that is not genesis
Drop ==
    /\ tEdit.field = "none"
    /\ \E count \in 1..Len(tChain) :
         LET chain == SubSeq(tChain, count + 1, Len(tChain))
         IN /\ tEdit' = [pos |-> 0, field |-> "dropped", chain |-> chain]
            /\ tVerdict' = validateChain(chain)
    /\ UNCHANGED <<tChain, ledgerVars, shamirVars, callVars, authVars, mineVars, forkVars, appVars>>

NextTamper == Extend \/ Tamper \/ Drop

SpecTamper == InitTamper /\ [][NextTamper]_vars

\* C5: in an accepted chain, changing one of timestamp, encryptedVote,
\* voterHash, nonce, hash, previousHash of a non-genesis block makes
\* validateChain return isValid = false with invalidBlockIndex at most that
\* block's index.
C5_TamperDetected ==
    (/\ tEdit.pos >= 2
     /\ tEdit.field \in {"timestamp", "encryptedVote", "voterHash",
                          "nonce", "hash", "previousHash"})
        => /\ tVerdict.isValid = FALSE
           /\ tVerdict.invalidBlockIndex <= tChain[tEdit.pos].index

\* the nonce of the second of three blocks changed, reported at that block
C5_Witness ==
    /\ Len(tChain) = 3
    /\ tEdit.pos = 2
    /\ tEdit.field = "nonce"
    /\ tVerdict.isValid = FALSE
    /\ tVerdict.invalidBlockIndex = 1

\* C17: validateChain always returns a result record: for the empty chain
\* isValid = false at index 0 with the error 'Empty chain', and for every
\* chain whose first block has an index other than 0 isValid = false at index
\* 0 with the error 'Invalid genesis block', whatever the other blocks hold.
C17_StructuredResult ==
    /\ DOMAIN tVerdict = {"isValid", "invalidBlockIndex", "error"}
    /\ tVerdict.isValid \in BOOLEAN
    /\ tEdit.chain = <<>> =>
          tVerdict = [isValid |-> FALSE, invalidBlockIndex |-> 0,
                      error |-> <<"Empty chain">>]
    /\ (tEdit.chain # <<>> /\ tEdit.chain[1].index # 0) =>
          tVerdict = [isValid |-> FALSE, invalidBlockIndex |-> 0,
                      error |-> <<"Invalid genesis block">>]

\* a chain of two blocks that starts with the block of index 1 was refused
\* at index 0
C17_Witness ==
    /\ tEdit.field = "dropped"
    /\ Len(tEdit.chain) = 2
    /\ tEdit.chain[1].index = 1
    /\ tVerdict.invalidBlockIndex = 0
    /\ tVerdict.error = <<"Invalid genesis block">>

\* C6: in an accepted chain, changing the value of any one field of any
\* block, genesis included, makes validateChain return isValid = false.
C6_EveryChangeDetected ==
    tEdit.field # "none" => tVerdict.isValid = FALSE

-----------------------------------------------------------------------------
(* SpecCalls: one call of gfMul, gfDiv or verifyProofOfWork on drawn *)
(* arguments                                                         *)

\* the characters and the texts of the hash strings handed to verifyProofOfWork
HashChars == {"0", "1", "f"}
HashTexts == UNION {[1..n -> HashChars] : n \in 0..MaxHashLen}

InitCalls ==
    /\ call = [op |-> "none"]
    /\ IdleLedger
    /\ IdleShamir
    /\ IdleTamper
    /\ IdleAuth
    /\ IdleMine
    /\ IdleFork
    /\ IdleApp

GfMul ==
    /\ call.op = "none"
    /\ \E a \in Bytes, b \in Bytes :
         call' = [op |-> "gfMul", a |-> a, b |-> b, result |-> gfMul(a, b)]
    /\ UNCHANGED <<ledgerVars, shamirVars, tamperVars, authVars, mineVars, forkVars, appVars>>

GfDiv ==
    /\ call.op = "none"
    /\ \E a \in Bytes, b \in Bytes :
         call' = [op |-> "gfDiv", a |-> a, b |-> b, result |-> gfDiv(a, b)]
    /\ UNCHANGED <<ledgerVars, shamirVars, tamperVars, authVars, mineVars, forkVars, appVars>>

VerifyProofOfWork ==
    /\ call.op = "none"
    /\ \E hash \in HashTexts, difficulty \in 0..(MaxHashLen + 1) :
         call' = [op |-> "verifyProofOfWork", hash |-> hash,
                  difficulty |-> difficulty,
                  result |-> verifyProofOfWork(hash, difficulty)]
    /\ UNCHANGED <<ledgerVars, shamirVars, tamperVars, authVars, mineVars, forkVars, appVars>>

NextCalls == GfMul \/ GfDiv \/ VerifyProofOfWork

SpecCalls == InitCalls /\ [][NextCalls]_vars

\* C16: verifyProofOfWork(hash, d) is true exactly when the first d
\* characters of hash are all '0', for every d from 0 to the length of hash.
C16_VerifyProofOfWork ==
    (call.op = "verifyProofOfWork" /\ call.difficulty <= Len(call.hash))
        => (call.result <=> \A i \in 1..call.difficulty : call.hash[i] = "0")

\* a hash with two leading zeros and a third character that is not '0',
\* accepted at difficulty 2
C16_Witness ==
    /\ call.op = "verifyProofOfWork"
    /\ call.hash = <<"0", "0", "f">>
    /\ call.difficulty = 2
    /\ call.result = TRUE

\* C18: gfDiv(x, 0) raises 'Division by zero' for every byte x, 0 included,
\* and gfDiv(0, b) is 0 for every b in 1..255.
C18_GfDivZero ==
    call.op = "gfDiv" =>
        /\ call.b = 0 => call.result = -1
        /\ (call.a = 0 /\ call.b >= 1) => call.result = 0

\* zero divided by zero raised the error
C18_Witness ==
    /\ call.op = "gfDiv"
    /\ call.a = 0
    /\ call.b = 0
    /\ call.result = -1

\* the product of a and b in GF(2^8) modulo x^8 + x^4 + x^3 + x + 1 (0x11b),
\* by shifting and adding
RECURSIVE FieldProduct(_, _)
FieldProduct(a, b) ==
    IF b = 0 THEN 0
    ELSE LET a2 == IF Bit8(2 * a) THEN BitXor(2 * a, 283) ELSE 2 * a
             rest == FieldProduct(a2, b \div 2)
         IN IF b % 2 = 1 THEN BitXor(a, rest) ELSE rest

\* C20: gfMul(a, b) is the product of a and b in GF(2^8) with the polynomial
\* 0x11b for all bytes a, b; in particular gfMul(a, 1) = a, and
\* EXP_TABLE[LOG_TABLE[a]] = a for every a in 1..255.
C20_GfMulIsFieldProduct ==
    call.op = "gfMul" =>
        /\ call.result = FieldProduct(call.a, call.b)
        /\ call.b = 1 => call.result = call.a
        /\ call.a >= 1 => EXP_TABLE[LOG_TABLE[call.a]] = call.a

-----------------------------------------------------------------------------
(* SpecAuth: authenticateVoter on the in-memory voter database, part_002 *)

\* part_002:181, 5 * 60 * 1000 milliseconds
LOCK_MS == 300000

\* part_002:50-56, the first two of the demo voters
voterData ==
    <<[id |-> "A123456789", pin |-> "1234", constituency |-> "central-metro"],
      [id |-> "B987654321", pin |-> "5678", constituency |-> "northern-rural"]>>

\* part_002:58-67
initializeMockData ==
    [v \in 1..Len(voterData) |->
        [nationalIdHash |-> sha256(<<<<"text", voterData[v].id>>>>),
         pinHash |-> sha256(<<<<"text", voterData[v].pin>>>>),
         constituency |-> voterData[v].constituency,
         hasVoted |-> FALSE,
         failedAttempts |-> 0,
         lockedUntil |-> <<>>]]

\* a number | null field holds <<>> for null and <<n>> for the number n;
\* null and 0 are falsy
Truthy(field) == field # <<>> /\ field[1] # 0

\* MOCK_VOTERS.find(v => v.nationalIdHash === idHash): the position of the
\* first match, 0 for undefined
Find(db, idHash) ==
    LET found == {v \in 1..Len(db) : db[v].nationalIdHash = idHash}
    IN IF found = {} THEN 0 ELSE CHOOSE v \in found : \A w \in found : v <= w

\* Math.ceil(ms / 1000) for ms > 0
CeilSeconds(ms) == (ms + 999) \div 1000

\* an authentication that locks the account at the fourth failure
authenticateVoter_lockAtFour(db, nationalId, pin, clock) ==
    LET idHash == sha256(<<<<"text", nationalId>>>>)
        pinHash == sha256(<<<<"text", pin>>>>)
        v == Find(db, idHash)
    IN IF v = 0
       THEN [voters |-> db,
             result |-> [success |-> FALSE, error |-> <<"Invalid credentials">>,
                         attemptsRemaining |-> <<>>, voter |-> <<>>]]
       ELSE IF Truthy(db[v].lockedUntil) /\ clock < db[v].lockedUntil[1]
       THEN [voters |-> db,
             result |-> [success |-> FALSE,
                         error |-> <<"Account locked. Try again in ",
                                     CeilSeconds(db[v].lockedUntil[1] - clock),
                                     " seconds.">>,
                         attemptsRemaining |-> <<>>, voter |-> <<>>]]
       ELSE LET expired == Truthy(db[v].lockedUntil) /\ clock >= db[v].lockedUntil[1]
                db1 == IF expired
                       THEN [db EXCEPT ![v].lockedUntil = <<>>, ![v].failedAttempts = 0]
                       ELSE db
            IN IF db1[v].pinHash # pinHash
               THEN LET failedAttempts == db1[v].failedAttempts + 1
                        db2 == [db1 EXCEPT ![v].failedAttempts = failedAttempts]
                    IN IF failedAttempts >= 4
                       THEN [voters |-> [db2 EXCEPT ![v].lockedUntil = <<clock + LOCK_MS>>],
                             result |-> [success |-> FALSE,
                                         error |-> <<"Account locked due to too many failed attempts. Try again in 5 minutes.">>,
                                         attemptsRemaining |-> <<0>>, voter |-> <<>>]]
                       ELSE [voters |-> db2,
                             result |-> [success |-> FALSE,
                                         error |-> <<"Invalid credentials">>,
                                         attemptsRemaining |-> <<3 - failedAttempts>>,
                                         voter |-> <<>>]]
               ELSE [voters |-> [db1 EXCEPT ![v].failedAttempts = 0],
                     result |-> [success |-> TRUE, error |-> <<>>,
                                 attemptsRemaining |-> <<>>, voter |-> <<v>>]]

\* an authentication whose successful login leaves the failure count
authenticateVoter_noResetOnSuccess(db, nationalId, pin, clock) ==
    LET idHash == sha256(<<<<"text", nationalId>>>>)
        pinHash == sha256(<<<<"text", pin>>>>)
        v == Find(db, idHash)
    IN IF v = 0
       THEN [voters |-> db,
             result |-> [success |-> FALSE, error |-> <<"Invalid credentials">>,
                         attemptsRemaining |-> <<>>, voter |-> <<>>]]
       ELSE IF Truthy(db[v].lockedUntil) /\ clock < db[v].lockedUntil[1]
       THEN [voters |-> db,
             result |-> [success |-> FALSE,
                         error |-> <<"Account locked. Try again in ",
                                     CeilSeconds(db[v].lockedUntil[1] - clock),
                                     " seconds.">>,
                         attemptsRemaining |-> <<>>, voter |-> <<>>]]
       ELSE LET expired == Truthy(db[v].lockedUntil) /\ clock >= db[v].lockedUntil[1]
                db1 == IF expired
                       THEN [db EXCEPT ![v].lockedUntil = <<>>, ![v].failedAttempts = 0]
                       ELSE db
            IN IF db1[v].pinHash # pinHash
               THEN LET failedAttempts == db1[v].failedAttempts + 1
                        db2 == [db1 EXCEPT ![v].failedAttempts = failedAttempts]
                    IN IF failedAttempts >= 3
                       THEN [voters |-> [db2 EXCEPT ![v].lockedUntil = <<clock + LOCK_MS>>],
                             result |-> [success |-> FALSE,
                                         error |-> <<"Account locked due to too many failed attempts. Try again in 5 minutes.">>,
                                         attemptsRemaining |-> <<0>>, voter |-> <<>>]]
                       ELSE [voters |-> db2,
                             result |-> [success |-> FALSE,
                                         error |-> <<"Invalid credentials">>,
                                         attemptsRemaining |-> <<3 - failedAttempts>>,
                                         voter |-> <<>>]]
               ELSE [voters |-> db1,
                     result |-> [success |-> TRUE, error |-> <<>>,
                                 attemptsRemaining |-> <<>>, voter |-> <<v>>]]

\* an authentication that clears an expired lock but keeps the failure count
authenticateVoter_keepCountOnExpiry(db, nationalId, pin, clock) ==
    LET idHash == sha256(<<<<"text", nationalId>>>>)
        pinHash == sha256(<<<<"text", pin>>>>)
        v == Find(db, idHash)
    IN IF v = 0
       THEN [voters |-> db,
             result |-> [success |-> FALSE, error |-> <<"Invalid credentials">>,
                         attemptsRemaining |-> <<>>, voter |-> <<>>]]
       ELSE IF Truthy(db[v].lockedUntil) /\ clock < db[v].lockedUntil[1]
       THEN [voters |-> db,
             result |-> [success |-> FALSE,
                         error |-> <<"Account locked. Try again in ",
                                     CeilSeconds(db[v].lockedUntil[1] - clock),
                                     " seconds.">>,
                         attemptsRemaining |-> <<>>, voter |-> <<>>]]
       ELSE LET expired == Truthy(db[v].lockedUntil) /\ clock >= db[v].lockedUntil[1]
                db1 == IF expired
                       THEN [db EXCEPT ![v].lockedUntil = <<>>]
                       ELSE db
            IN IF db1[v].pinHash # pinHash
               THEN LET failedAttempts == db1[v].failedAttempts + 1
                        db2 == [db1 EXCEPT ![v].failedAttempts = failedAttempts]
                    IN IF failedAttempts >= 3
                       THEN [voters |-> [db2 EXCEPT ![v].lockedUntil = <<clock + LOCK_MS>>],
                             result |-> [success |-> FALSE,
                                         error |-> <<"Account locked due to too many failed attempts. Try again in 5 minutes.">>,
                                         attemptsRemaining |-> <<0>>, voter |-> <<>>]]
                       ELSE [voters |-> db2,
                             result |-> [success |-> FALSE,
                                         error |-> <<"Invalid credentials">>,
                                         attemptsRemaining |-> <<3 - failedAttempts>>,
                                         voter |-> <<>>]]
               ELSE [voters |-> [db1 EXCEPT ![v].failedAttempts = 0],
                     result |-> [success |-> TRUE, error |-> <<>>,
                                 attemptsRemaining |-> <<>>, voter |-> <<v>>]]

\* part_002:146-200 after its awaits (no await follows the look-up, so the
\* rest of the call runs in one piece); db is MOCK_VOTERS, clock the reading
\* of Date.now(); error and attemptsRemaining are <<>> for undefined, voter
\* is the position of the returned record
authenticateVoter(db, nationalId, pin, clock) ==
    LET idHash == sha256(<<<<"text", nationalId>>>>)
        pinHash == sha256(<<<<"text", pin>>>>)
        v == Find(db, idHash)
    IN IF v = 0
       THEN [voters |-> db,
             result |-> [success |-> FALSE, error |-> <<"Invalid credentials">>,
                         attemptsRemaining |-> <<>>, voter |-> <<>>]]
       ELSE IF Truthy(db[v].lockedUntil) /\ clock < db[v].lockedUntil[1]
       THEN [voters |-> db,
             result |-> [success |-> FALSE,
                         error |-> <<"Account locked. Try again in ",
                                     CeilSeconds(db[v].lockedUntil[1] - clock),
                                     " seconds.">>,
                         attemptsRemaining |-> <<>>, voter |-> <<>>]]
       ELSE LET expired == Truthy(db[v].lockedUntil) /\ clock >= db[v].lockedUntil[1]
                db1 == IF expired
                       THEN [db EXCEPT ![v].lockedUntil = <<>>, ![v].failedAttempts = 0]
                       ELSE db
            IN IF db1[v].pinHash # pinHash
               THEN LET failedAttempts == db1[v].failedAttempts + 1
                        db2 == [db1 EXCEPT ![v].failedAttempts = failedAttempts]
                    IN IF failedAttempts >= 3
                       THEN [voters |-> [db2 EXCEPT ![v].lockedUntil = <<clock + LOCK_MS>>],
                             result |-> [success |-> FALSE,
                                         error |-> <<"Account locked due to too many failed attempts. Try again in 5 minutes.">>,
                                         attemptsRemaining |-> <<0>>, voter |-> <<>>]]
                       ELSE [voters |-> db2,
                             result |-> [success |-> FALSE,
                                         error |-> <<"Invalid credentials">>,
                                         attemptsRemaining |-> <<3 - failedAttempts>>,
                                         voter |-> <<>>]]
               ELSE [voters |-> [db1 EXCEPT ![v].failedAttempts = 0],
                     result |-> [success |-> TRUE, error |-> <<>>,
                                 attemptsRemaining |-> <<>>, voter |-> <<v>>]]

\* the readings of Date.now(): multiples of 100 seconds, in no order (the
\* wall clock follows the adjustments of the system time)
AuthTimes == {t * 100000 : t \in 1..MaxAuthTime}

\* the National IDs and PINs typed in: the two registered voters' and an
\* ID that is not registered; each PIN is the wrong one for the other voter
NationalIds == {voterData[1].id, voterData[2].id, "X000000000"}
Pins == {voterData[1].pin, voterData[2].pin}

\* the position of a National ID in the database, 0 if it is not registered
Registered(nationalId) ==
    LET found == {v \in 1..Len(voterData) : voterData[v].id = nationalId}
    IN IF found = {} THEN 0 ELSE CHOOSE v \in found : TRUE

\* History, no program state: for each registered voter the number of
\* wrong-PIN attempts in a row, counted from the last successful login or
\* lock expiry.  A call made before lockedUntil is refused and is no attempt.
WrongPinStreak(streak, db, nationalId, pin, clock) ==
    LET v == Registered(nationalId)
    IN IF v = 0 THEN streak
       ELSE IF db[v].lockedUntil # <<>> /\ clock < db[v].lockedUntil[1] THEN streak
       ELSE IF pin = voterData[v].pin THEN [streak EXCEPT ![v] = 0]
       ELSE IF db[v].lockedUntil # <<>> THEN [streak EXCEPT ![v] = 1]
       ELSE [streak EXCEPT ![v] = @ + 1]

InitAuth ==
    /\ voters = initializeMockData
    /\ authClock = 0
    /\ authLast = [called |-> FALSE, streak |-> [v \in 1..Len(voterData) |-> 0]]
    /\ IdleLedger
    /\ IdleShamir
    /\ IdleTamper
    /\ IdleCall
    /\ IdleMine
    /\ IdleFork
    /\ IdleApp

\* one call of authenticateVoter
Authenticate ==
    /\ \E nationalId \in NationalIds, pin \in Pins, clock \in AuthTimes :
         LET r == authenticateVoter(voters, nationalId, pin, clock)
         IN /\ voters' = r.voters
            /\ authClock' = clock
            /\ authLast' = [called |-> TRUE, nationalId |-> nationalId,
                            pin |-> pin, clock |-> clock, result |-> r.result,
                            before |-> voters,
                            streakBefore |-> authLast.streak,
                            streak |-> WrongPinStreak(authLast.streak, voters,
                                                      nationalId, pin, clock)]
    /\ UNCHANGED <<ledgerVars, shamirVars, tamperVars, callVars, mineVars, forkVars, appVars>>

NextAuth == Authenticate

SpecAuth == InitAuth /\ [][NextAuth]_vars

\* C12: three wrong-PIN attempts in a row for a registered National ID lock
\* the account until 5 minutes after the third, and fewer than three never
\* lock it; every call for that ID made before lockedUntil fails, also with
\* the correct PIN, and leaves failedAttempts and lockedUntil as they were.
C12_Lockout ==
    authLast.called =>
        \A v \in 1..Len(voterData) :
            /\ authLast.streak[v] >= 3 <=> voters[v].lockedUntil # <<>>
            /\ (authLast.streakBefore[v] = 2 /\ authLast.streak[v] = 3) =>
                  /\ voters[v].lockedUntil = <<authLast.clock + 5 * 60 * 1000>>
                  /\ authLast.result.success = FALSE
            /\ (/\ authLast.nationalId = voterData[v].id
                /\ authLast.before[v].lockedUntil # <<>>
                /\ authLast.clock < authLast.before[v].lockedUntil[1]) =>
                  /\ authLast.result.success = FALSE
                  /\ voters[v].failedAttempts = authLast.before[v].failedAttempts
                  /\ voters[v].lockedUntil = authLast.before[v].lockedUntil

\* the correct PIN was refused for a locked account before lockedUntil
C12_Witness ==
    /\ authLast.called
    /\ \E v \in 1..Len(voterData) :
          /\ authLast.nationalId = voterData[v].id
          /\ authLast.pin = voterData[v].pin
          /\ authLast.streak[v] = 3
          /\ authLast.clock < voters[v].lockedUntil[1]
          /\ authLast.result.success = FALSE

\* C29: failedAttempts stays in 0..3 and lockedUntil is set exactly when
\* failedAttempts = 3; a failed attempt that does not lock reports
\* attemptsRemaining = 3 - failedAttempts (1 or 2), the locking attempt
\* reports 0, a successful login resets failedAttempts to 0, and a call with
\* an unknown National ID changes no voter record.
C29_FailedAttempts ==
    /\ \A v \in 1..Len(voters) :
          /\ voters[v].failedAttempts \in 0..3
          /\ voters[v].lockedUntil # <<>> <=> voters[v].failedAttempts = 3
    /\ authLast.called =>
          LET v == Registered(authLast.nationalId)
              result == authLast.result
          IN /\ v = 0 => voters = authLast.before
             /\ (v # 0 /\ result.success) => voters[v].failedAttempts = 0
             /\ (v # 0 /\ result.attemptsRemaining # <<>>) =>
                   IF voters[v].lockedUntil # <<>>
                   THEN result.attemptsRemaining = <<0>>
                   ELSE /\ result.attemptsRemaining = <<3 - voters[v].failedAttempts>>
                        /\ result.attemptsRemaining[1] \in {1, 2}
             /\ (v # 0 /\ ~result.success /\ result.attemptsRemaining = <<>>) =>
                   voters = authLast.before

\* a successful login after two failed attempts
C29_Witness ==
    /\ authLast.called
    /\ authLast.result.success
    /\ \E v \in 1..Len(voters) :
          /\ authLast.nationalId = voterData[v].id
          /\ authLast.before[v].failedAttempts = 2
          /\ voters[v].failedAttempts = 0

\* C30: a call for a locked account made at or after lockedUntil clears the
\* lock and resets failedAttempts to 0 before the PIN is checked: the correct
\* PIN succeeds and a wrong PIN reports 2 attempts remaining.
C30_LockEnds ==
    authLast.called =>
        \A v \in 1..Len(voterData) :
            (/\ authLast.nationalId = voterData[v].id
             /\ authLast.before[v].lockedUntil # <<>>
             /\ authLast.clock >= authLast.before[v].lockedUntil[1]) =>
                /\ voters[v].lockedUntil = <<>>
                /\ IF authLast.pin = voterData[v].pin
                   THEN /\ authLast.result.success
                        /\ voters[v].failedAttempts = 0
                   ELSE /\ ~authLast.result.success
                        /\ authLast.result.attemptsRemaining = <<2>>
                        /\ voters[v].failedAttempts = 1

\* a wrong PIN given at the very reading at which the lock ends
C30_Witness ==
    /\ authLast.called
    /\ \E v \in 1..Len(voterData) :
          /\ authLast.nationalId = voterData[v].id
          /\ authLast.pin # voterData[v].pin
          /\ authLast.before[v].lockedUntil = <<authLast.clock>>
          /\ authLast.result.attemptsRemaining = <<2>>

-----------------------------------------------------------------------------
(* Spec: the integrity flag and the best-effort block *)

\* C27: the chain-integrity flag of getVoteStatistics agrees with validation:
\* in every state reached from createBlockchain() by addVote calls,
\* getVoteStatistics(state).chainIntegrity equals
\* validateChain(state.chain).isValid.
C27_IntegrityFlagAgrees ==
    getVoteStatistics(state).chainIntegrity = validateChain(state.chain).isValid

\* the text mineBlock hashes for a block, crypto.ts:264 with blockchain.ts:104-108
MinedText(block) ==
    StringifyBlockData(block)
        \o <<<<"text", block.previousHash>>, <<"text", block.nonce>>>>

\* C23: the nonce search never fails: the block addVote returns carries a
\* nonce and the digest of the text with that same nonce, whether or not the
\* digest meets the difficulty, and the returned state has exactly one block
\* more than the input state, that block being the last.
C23_BestEffortBlockAppended ==
    lastCall.called =>
        /\ lastCall.block.hash = sha256(MinedText(lastCall.block))
        /\ Len(state.chain) = Len(input.chain) + 1
        /\ state.chain = input.chain \o <<lastCall.block>>

\* a search went over its ceiling and its block was appended
C23_Witness ==
    /\ lastCall.called
    /\ ~verifyProofOfWork(HashText(lastCall.block.hash), lastCall.block.difficulty)
    /\ state.chain[Len(state.chain)] = lastCall.block
    /\ Len(state.chain) = Len(input.chain) + 1

-----------------------------------------------------------------------------
(* SpecTamper: the order of the checks of validateChain *)

\* blockchain.ts:158-210: the five conditions validateChain tests at block i
\* (chain[i + 1] here), in the order of the code, each TRUE when it fails
BlockChecks(chain, i) ==
    LET currentBlock == chain[i + 1]
        previousBlock == chain[i]
    IN << currentBlock.index # previousBlock.index + 1,
          currentBlock.previousHash # previousBlock.hash,
          calculateBlockHash(currentBlock) # currentBlock.hash,
          ~verifyProofOfWork(HashText(currentBlock.hash), currentBlock.difficulty),
          currentBlock.timestamp < previousBlock.timestamp >>

\* blockchain.ts:162, 171, 190, 199, 208: the messages of the five checks
CheckErrors ==
    << "Index discontinuity at block ", "Hash chain broken at block ",
       "Hash mismatch at block ", "Invalid PoW at block ",
       "Timestamp violation at block " >>

FailedChecks(chain, i) == {c \in 1..5 : BlockChecks(chain, i)[c]}

FailingBlocks(chain) == {i \in 1..(Len(chain) - 1) : FailedChecks(chain, i) # {}}

Least(S) == CHOOSE m \in S : \A n \in S : m <= n

\* C21: for a non-empty chain whose first block has index 0, validateChain
\* returns the smallest block index at which one of index continuity,
\* previous-hash linkage, hash recomputation, proof-of-work, timestamp order
\* fails, with the message of the first of these checks that fails at that
\* block, and returns isValid = true with a null index exactly when no block
\* fails a check.
C21_FirstFailingCheck ==
    LET chain == tEdit.chain
    IN (chain # <<>> /\ chain[1].index = 0) =>
          IF FailingBlocks(chain) = {}
          THEN tVerdict = [isValid |-> TRUE, invalidBlockIndex |-> "null",
                           error |-> <<"null">>]
          ELSE LET i == Least(FailingBlocks(chain))
                   c == Least(FailedChecks(chain, i))
               IN tVerdict = [isValid |-> FALSE, invalidBlockIndex |-> i,
                              error |-> <<CheckErrors[c], i>>]

\* the previousHash of the second of three blocks changed: that block fails
\* the linkage and the hash recomputation, the linkage is reported
C21_Witness ==
    /\ Len(tEdit.chain) = 3
    /\ tEdit.field = "previousHash"
    /\ tEdit.pos = 2
    /\ FailedChecks(tEdit.chain, 1) = {2, 3}
    /\ tVerdict.invalidBlockIndex = 1
    /\ tVerdict.error = <<"Hash chain broken at block ", 1>>

-----------------------------------------------------------------------------
(* SpecMine: one mineBlock call, attempt by attempt *)

\* crypto.ts:276, the safety limit of the search
MAX_ATTEMPTS == 10000

\* crypto.ts:271, the attempts between two yields
YIELD_EVERY == 100

\* a search that yields after every second batch
YieldDue_everySecondBatch(attempts) == attempts % (2 * YIELD_EVERY) = 0

\* crypto.ts:271, attempts % 100 === 0
YieldDue(attempts) == attempts % YIELD_EVERY = 0

\* crypto.ts:276, attempts > 10000
OverCeiling(attempts) == attempts > MAX_ATTEMPTS

\* the data and previousHash addVote passes for the first vote of a ledger
MineData(difficulty) ==
    StringifyBlockData(PrepareBlockData(GENESIS_BLOCK, 1, 1, difficulty, GenesisTime))

MinePreviousHash == GENESIS_BLOCK.hash

\* crypto.ts:258-259.  run counts the hash attempts made since the call
\* started or last came back from a yield, hashes the calls of sha256.
InitMine ==
    /\ mine = [pc |-> "idle", difficulty |-> 0, attempts |-> 0, nonce |-> 0,
               hash |-> ZEROS_64, run |-> 0, hashes |-> 0, result |-> <<>>]
    /\ IdleLedger
    /\ IdleShamir
    /\ IdleTamper
    /\ IdleCall
    /\ IdleAuth
    /\ IdleFork
    /\ IdleApp

\* the call, crypto.ts:253-259
MineStart ==
    /\ mine.pc = "idle"
    /\ \E difficulty \in Difficulties :
         mine' = [mine EXCEPT !.pc = "loop", !.difficulty = difficulty]
    /\ UNCHANGED <<ledgerVars, shamirVars, tamperVars, callVars, authVars,
                   forkVars, appVars>>

\* one turn of the loop, crypto.ts:261-279, up to its return, its yield or
\* its end
MineAttempt ==
    /\ mine.pc = "loop"
    /\ \E drawn \in Nonces :
         LET attempts == mine.attempts + 1
             nonce == drawn
             hash == sha256(MineData(mine.difficulty)
                        \o <<<<"text", MinePreviousHash>>, <<"text", nonce>>>>)
             tried == [mine EXCEPT !.attempts = attempts, !.nonce = nonce,
                                   !.hash = hash, !.run = @ + 1, !.hashes = @ + 1]
             returned == <<[nonce |-> nonce, hash |-> hash, attempts |-> attempts]>>
         IN mine' = IF StartsWithZeros(hash, mine.difficulty)
                    THEN [tried EXCEPT !.pc = "done", !.result = returned]
                    ELSE IF YieldDue(attempts)
                    THEN [tried EXCEPT !.pc = "yielded"]
                    ELSE IF OverCeiling(attempts)
                    THEN [tried EXCEPT !.pc = "done", !.result = returned]
                    ELSE tried
    /\ UNCHANGED <<ledgerVars, shamirVars, tamperVars, callVars, authVars,
                   forkVars, appVars>>

\* the timer of the yield fires, crypto.ts:272, and the turn goes on at
\* crypto.ts:276
MineResume ==
    /\ mine.pc = "yielded"
    /\ mine' = IF OverCeiling(mine.attempts)
               THEN [mine EXCEPT !.pc = "done", !.run = 0,
                        !.result = <<[nonce |-> mine.nonce, hash |-> mine.hash,
                                      attempts |-> mine.attempts]>>]
               ELSE [mine EXCEPT !.pc = "loop", !.run = 0]
    /\ UNCHANGED <<ledgerVars, shamirVars, tamperVars, callVars, authVars,
                   forkVars, appVars>>

NextMine == MineStart \/ MineAttempt \/ MineResume

SpecMine == InitMine /\ [][NextMine]_vars

\* C22: mineBlock returns at the first attempt whose hash starts with
\* difficulty zeros and otherwise at the attempt ceiling, so that neither
\* the number of hash attempts nor the returned attempts count exceeds 10000.
C22_AttemptsWithinCeiling ==
    /\ mine.hashes <= MAX_ATTEMPTS
    /\ mine.pc = "done" => mine.result[1].attempts <= MAX_ATTEMPTS

\* what of C22 the loop does keep: a return is at the first conforming hash
\* or over the ceiling, with at most one attempt more than the ceiling
C22_ReturnsAtFirstHitOrCeiling ==
    /\ mine.hashes = mine.attempts
    /\ mine.attempts <= MAX_ATTEMPTS + 1
    /\ mine.pc = "done" =>
          /\ mine.result[1] = [nonce |-> mine.nonce, hash |-> mine.hash,
                               attempts |-> mine.attempts]
          /\ \/ StartsWithZeros(mine.hash, mine.difficulty)
             \/ mine.attempts = MAX_ATTEMPTS + 1
          /\ mine.difficulty = 0 => mine.attempts = 1
    /\ mine.pc \in {"loop", "yielded"} =>
          (mine.attempts > 0 => ~StartsWithZeros(mine.hash, mine.difficulty))

\* C24: the search makes no more than 100 hash attempts in a row without
\* the yield of crypto.ts:272, and after a yield it goes on with the same
\* search: same difficulty, same attempts count, next turn of the loop.
C24_YieldEveryBatch ==
    [][/\ mine'.run <= YIELD_EVERY
       /\ mine.pc = "yielded" =>
             /\ mine'.pc = "loop"
             /\ mine'.difficulty = mine.difficulty
             /\ mine'.attempts = mine.attempts
             /\ mine'.nonce = mine.nonce
             /\ mine'.hash = mine.hash]_vars

\* the search is in its second batch, after its first yield
C24_Witness ==
    /\ mine.pc = "loop"
    /\ mine.attempts = YIELD_EVERY + 1
    /\ mine.run = 1

-----------------------------------------------------------------------------
(* SpecFork: two addVote calls started on the same state *)

\* the ciphertexts of the vote cast before the two calls and of the two
\* calls: every encryption gives a text of its own
EarlierVote == CHOOSE v \in Votes : TRUE
FirstVote == EarlierVote + 1
SecondVote == EarlierVote + 2

\* an adoption that appends the returned block to the state held
Adopt_appendBlock(held, result) ==
    [held EXCEPT !.chain = Append(@, result.block)]

\* README.md:256, setBlockchainState(result.state)
Adopt(held, result) == result.state

\* base is the state both calls are started on, held the state the caller
\* holds, a and b what the calls returned, order the calls adopted so far
InitFork ==
    /\ \E clock \in ClockValues :
         fork = [pc |-> "base", base |-> createBlockchain(clock),
                 held |-> createBlockchain(clock),
                 a |-> <<>>, b |-> <<>>, order |-> <<>>]
    /\ IdleLedger
    /\ IdleShamir
    /\ IdleTamper
    /\ IdleCall
    /\ IdleAuth
    /\ IdleMine
    /\ IdleApp

\* a serialized addVote before the two calls: its result is adopted before
\* anything else starts
ForkGrow ==
    /\ fork.pc = "base"
    /\ Len(fork.base.chain) = 1
    /\ \E voterHash \in Voters, difficulty \in Difficulties, clock \in ClockValues :
       \E draws \in Draws(difficulty) :
         LET r == addVote(fork.base, EarlierVote, voterHash, difficulty, draws,
                          clock, clock)
         IN fork' = [fork EXCEPT !.base = r.state, !.held = Adopt(fork.held, r)]
    /\ UNCHANGED <<ledgerVars, shamirVars, tamperVars, callVars, authVars,
                   mineVars, appVars>>

\* both calls are started on base and run to their return, blockchain.ts:84-133
ForkCalls ==
    /\ fork.pc = "base"
    /\ \E ha \in Voters, da \in Difficulties, ca \in ClockValues,
          hb \in Voters, db \in Difficulties, cb \in ClockValues :
       \E drawsA \in Draws(da), drawsB \in Draws(db) :
         LET ra == addVote(fork.base, FirstVote, ha, da, drawsA, ca, ca)
             rb == addVote(fork.base, SecondVote, hb, db, drawsB, cb, cb)
         IN fork' = [fork EXCEPT !.pc = "returned",
                        !.a = <<[state |-> ra.state, block |-> ra.block]>>,
                        !.b = <<[state |-> rb.state, block |-> rb.block]>>]
    /\ UNCHANGED <<ledgerVars, shamirVars, tamperVars, callVars, authVars,
                   mineVars, appVars>>

\* the caller adopts a result it has not adopted yet
ForkAdopt ==
    /\ fork.pc \in {"returned", "adopted1"}
    /\ \E which \in {"a", "b"} :
         /\ \A n \in 1..Len(fork.order) : fork.order[n] # which
         /\ fork' = [fork EXCEPT
                        !.pc = IF fork.pc = "returned" THEN "adopted1" ELSE "adopted2",
                        !.held = Adopt(fork.held, fork[which][1]),
                        !.order = Append(@, which)]
    /\ UNCHANGED <<ledgerVars, shamirVars, tamperVars, callVars, authVars,
                   mineVars, appVars>>

NextFork == ForkGrow \/ ForkCalls \/ ForkAdopt

SpecFork == InitFork /\ [][NextFork]_vars

\* the positions of a chain at which a block is
PositionsOf(block, chain) == {p \in 1..Len(chain) : chain[p] = block}

\* C26: two addVote calls started on the same state return blocks with the
\* same index and the same previousHash, neither returned chain holds both
\* blocks, and once both results are adopted one after the other the chain
\* held has one block more than the common state and lacks the vote of the
\* result adopted first.
C26_RaceOnTail ==
    fork.pc \in {"returned", "adopted1", "adopted2"} =>
        LET a == fork.a[1]
            b == fork.b[1]
        IN /\ a.block.index = b.block.index
           /\ a.block.previousHash = b.block.previousHash
           /\ \A r \in {a, b} :
                 \/ PositionsOf(a.block, r.state.chain) = {}
                 \/ PositionsOf(b.block, r.state.chain) = {}
           /\ fork.pc = "adopted2" =>
                 LET lost == fork[fork.order[1]][1].block
                 IN /\ Len(fork.held.chain) = Len(fork.base.chain) + 1
                    /\ PositionsOf(lost, fork.held.chain) = {}
                    /\ \A p \in 1..Len(fork.held.chain) :
                          fork.held.chain[p].encryptedVote # lost.encryptedVote

\* two voters voted at once on a ledger of one vote, b was adopted, then a
C26_Witness ==
    /\ fork.pc = "adopted2"
    /\ fork.order = <<"b", "a">>
    /\ Len(fork.base.chain) = 2
    /\ fork.a[1].block.voterHash # fork.b[1].block.voterHash
    /\ fork.held = fork.a[1].state

-----------------------------------------------------------------------------
(* SpecApp: the Index component, README.md:172-384, with the event handlers *)
(* of the screens it renders and the continuations of its awaits            *)

\* README.md:253, the difficulty handleConfirmVote passes to addVote
APP_DIFFICULTY == 4

\* README.md:188, the presses of Ctrl+Shift+A that open the admin login
ADMIN_KEY_PRESSES == 3

\* the voter hashes of the voters who log in (getVoterHash, part_002:213)
AppVoters == 1..(MaxVoter + 1)

\* Neither the nonces nor the clock enter the screens: every search draws
\* the nonce 0, which never meets the difficulty 4, and every reading of the
\* clock is the same.
AppDraws == [a \in 1..(MaxAttempts + 1) |-> 0]
AppClock == GenesisTime + 1

\* README.md:173-180.  session and lastBlock are <<>> for null.  pending
\* holds the handleConfirmVote calls that are at an await, with the session
\* and blockchainState of the render they were created in; login holds the
\* VoterLogin submission that is at an await; completed the blocks of the
\* addVote calls that returned.
InitApp ==
    /\ app = [screen |-> "login", session |-> <<>>,
              blockchainState |-> createBlockchain(GenesisTime),
              lastBlock |-> <<>>, lastMiningTime |-> 0,
              isSubmitting |-> FALSE, adminKeyPressed |-> 0,
              pending |-> <<>>, login |-> <<>>, completed |-> {}]
    /\ IdleLedger
    /\ IdleShamir
    /\ IdleTamper
    /\ IdleCall
    /\ IdleAuth
    /\ IdleMine
    /\ IdleFork

AppUnchanged ==
    UNCHANGED <<ledgerVars, shamirVars, tamperVars, callVars, authVars,
                mineVars, forkVars>>

\* README.md:277-282
handleExit(a) ==
    [a EXCEPT !.session = <<>>, !.lastBlock = <<>>, !.lastMiningTime = 0,
              !.screen = "login"]

\* a confirm button that does not look at isSubmitting
ConfirmEnabled_always(a) ==
    /\ a.screen = "confirmation"
    /\ a.session # <<>>
    /\ a.session[1].selectedCandidate

\* README.md:308-316 and part_001:109-112: the confirmation screen is
\* rendered and its confirm button is not disabled
ConfirmEnabled(a) ==
    /\ a.screen = "confirmation"
    /\ a.session # <<>>
    /\ a.session[1].selectedCandidate
    /\ ~a.isSubmitting

\* part_001:157-169: the form of VoterLogin is submitted and waits for
\* authenticateVoter (one submission at a time here)
LoginStart ==
    /\ app.screen = "login"
    /\ app.login = <<>>
    /\ \E voterHash \in AppVoters : app' = [app EXCEPT !.login = <<voterHash>>]
    /\ AppUnchanged

\* part_001:169 and README.md:212-224, handleAuthenticated
LoginDone ==
    /\ app.login # <<>>
    /\ app' = [app EXCEPT !.login = <<>>,
                  !.session = <<[voterHash |-> app.login[1],
                                 selectedCandidate |-> FALSE]>>,
                  !.screen = "ballot"]
    /\ AppUnchanged

\* part_001:171-177: authenticateVoter refuses the credentials
LoginRefused ==
    /\ app.login # <<>>
    /\ app' = [app EXCEPT !.login = <<>>]
    /\ AppUnchanged

\* part_000:15-19 and README.md:225-230, handleVoteSelected
VoteSelected ==
    /\ app.screen = "ballot"
    /\ app.session # <<>>
    /\ app' = [app EXCEPT !.session[1].selectedCandidate = TRUE,
                          !.screen = "confirmation"]
    /\ AppUnchanged

\* README.md:303, the cancel button of the ballot
BallotCancel ==
    /\ app.screen = "ballot"
    /\ app.session # <<>>
    /\ app' = handleExit(app)
    /\ AppUnchanged

\* README.md:314 and part_001:98-101, the back button of the confirmation
ConfirmBack ==
    /\ app.screen = "confirmation"
    /\ app.session # <<>>
    /\ app.session[1].selectedCandidate
    /\ ~app.isSubmitting
    /\ app' = [app EXCEPT !.screen = "ballot"]
    /\ AppUnchanged

\* README.md:232-246: handleConfirmVote up to its first await
ConfirmVote ==
    /\ ConfirmEnabled(app)
    /\ Len(app.blockchainState.chain) + Len(app.pending) <= MaxBlocks
    /\ app' = [app EXCEPT !.isSubmitting = TRUE,
                  !.pending = Append(@, [pc |-> "encrypt",
                                         voterHash |-> app.session[1].voterHash,
                                         blockchainState |-> app.blockchainState])]
    /\ AppUnchanged

\* README.md:246-254: encryptVoteRSA returned, addVote is called and mines
VoteEncrypted ==
    /\ \E n \in 1..Len(app.pending) :
         /\ app.pending[n].pc = "encrypt"
         /\ app' = [app EXCEPT !.pending[n].pc = "mine"]
    /\ AppUnchanged

\* README.md:249-265: addVote returned
VoteMined ==
    /\ \E n \in 1..Len(app.pending) :
         /\ app.pending[n].pc = "mine"
         /\ LET call0 == app.pending[n]
                result == addVote(call0.blockchainState, FirstVote, call0.voterHash,
                                  APP_DIFFICULTY, AppDraws, AppClock, AppClock)
            IN app' = [app EXCEPT
                          !.blockchainState = Adopt(app.blockchainState, result),
                          !.lastBlock = <<result.block>>,
                          !.lastMiningTime = result.miningTime,
                          !.screen = "receipt",
                          !.isSubmitting = FALSE,
                          !.pending = SubSeq(@, 1, n - 1) \o SubSeq(@, n + 1, Len(@)),
                          !.completed = @ \cup {result.block}]
    /\ AppUnchanged

\* README.md:260-265: encryptVoteRSA or addVote threw
VoteFailed ==
    /\ \E n \in 1..Len(app.pending) :
         app' = [app EXCEPT
                    !.isSubmitting = FALSE,
                    !.pending = SubSeq(@, 1, n - 1) \o SubSeq(@, n + 1, Len(@))]
    /\ AppUnchanged

\* README.md:268-273 and 325, the receipt is rendered when lastBlock is set
NewVote ==
    /\ app.screen = "receipt"
    /\ app.lastBlock # <<>>
    /\ app.session # <<>>
    /\ app' = [app EXCEPT !.session[1].selectedCandidate = FALSE,
                          !.screen = "ballot"]
    /\ AppUnchanged

\* README.md:326
ReceiptExit ==
    /\ app.screen = "receipt"
    /\ app.lastBlock # <<>>
    /\ app' = handleExit(app)
    /\ AppUnchanged

\* README.md:183-199: Ctrl+Shift+A on any screen
AdminKey ==
    /\ LET newCount == app.adminKeyPressed + 1
       IN app' = IF newCount >= ADMIN_KEY_PRESSES
                 THEN [app EXCEPT !.screen = "admin-login", !.adminKeyPressed = 0]
                 ELSE [app EXCEPT !.adminKeyPressed = newCount]
    /\ AppUnchanged

\* README.md:192, the timer that forgets the presses
AdminKeyTimer ==
    /\ app.adminKeyPressed > 0
    /\ app' = [app EXCEPT !.adminKeyPressed = 0]
    /\ AppUnchanged

\* README.md:373-376, the admin button of the login screen
AdminAccess ==
    /\ app.screen = "login"
    /\ app' = [app EXCEPT !.screen = "admin-login"]
    /\ AppUnchanged

\* README.md:335
AdminCancel ==
    /\ app.screen = "admin-login"
    /\ app' = handleExit(app)
    /\ AppUnchanged

\* README.md:334
AdminAuthenticated ==
    /\ app.screen = "admin-login"
    /\ app' = [app EXCEPT !.screen = "admin-dashboard"]
    /\ AppUnchanged

\* README.md:284-286, handleAdminLogout
AdminLogout ==
    /\ app.screen = "admin-dashboard"
    /\ app' = [app EXCEPT !.screen = "login"]
    /\ AppUnchanged

NextApp ==
    \/ LoginStart \/ LoginDone \/ LoginRefused
    \/ VoteSelected \/ BallotCancel \/ ConfirmBack
    \/ ConfirmVote \/ VoteEncrypted \/ VoteMined \/ VoteFailed
    \/ NewVote \/ ReceiptExit
    \/ AdminKey \/ AdminKeyTimer \/ AdminAccess \/ AdminCancel
    \/ AdminAuthenticated \/ AdminLogout

SpecApp == InitApp /\ [][NextApp]_vars

\* C25: at most one addVote is in flight: while a handleConfirmVote has not
\* set isSubmitting back to false no other one starts, whatever the user
\* does during the mining, and every block of an addVote that returned is in
\* the chain the application holds.
C25_OneSubmissionInFlight ==
    /\ Len(app.pending) <= 1
    /\ app.isSubmitting <=> Len(app.pending) = 1
    /\ \A block \in app.completed :
          PositionsOf(block, app.blockchainState.chain) # {}

\* a second voter is at the confirmation screen while the vote of the first
\* is being mined
C25_Witness ==
    /\ Len(app.pending) = 1
    /\ app.pending[1].pc = "mine"
    /\ app.screen = "confirmation"
    /\ app.session # <<>>
    /\ app.session[1].voterHash # app.pending[1].voterHash
    /\ app.completed # {}

\* C28: while the receipt screen is shown there is a session and lastBlock
\* is the block of that session's voter.
C28_ReceiptBelongsToSession ==
    app.screen = "receipt" =>
        /\ app.session # <<>>
        /\ app.lastBlock # <<>>
        /\ app.lastBlock[1].voterHash = app.session[1].voterHash

=============================================================================
